---- MODULE Spec2Model ----
(***************************************************************************)
(* A model of utils/syntax_checker.py: the SyntaxChecker class with its    *)
(* per-language parser singletons, the check_syntax entry point, and the   *)
(* Lua and XML checks with their recursive tree walks.                     *)
(*                                                                         *)
(* Python strings are sequences of one-character strings, so that lower(), *)
(* startswith(), endswith(), slicing, split() and strip() are computed.    *)
(* The tree-sitter parser is an external library: the tree it returns for  *)
(* a piece of code is an input of the call, as is the outcome of each step *)
(* that can raise.  Diagnostic messages (formatted text) are not modelled; *)
(* a diagnostic is its line, column, type and node_type.                   *)
(***************************************************************************)
EXTENDS Integers, Sequences, FiniteSets, TLC

VARIABLES
    TREE_SITTER_AVAILABLE,   \* module global, set once at import
    LUA_LANGUAGE_AVAILABLE,  \* module global, set once at import
    XML_LANGUAGE_AVAILABLE,  \* module global, set once at import
    lua_parser,              \* SyntaxChecker._lua_parser: None or a parser handle
    xml_parser,              \* SyntaxChecker._xml_parser: None or a parser handle
    nextHandle,              \* identity of the next parser object to be allocated
    pc,                      \* "idle" or "returned" (a sequential caller's position)
    call,                    \* the arguments and step outcomes of the call that returned
    result,                  \* the dictionary the call returned
    effect,                  \* what the call did: constructions, parse, handle used
    constructed,             \* per language, the parser handles constructed so far
    threads,                 \* concurrent callers: each one's position and locals
    first,                   \* the earlier of two calls in a row: its outcomes and result
    fs,                      \* the file the file tools work on: its path and content
    tool                     \* the file tool call that returned, and what it did

vars == <<TREE_SITTER_AVAILABLE, LUA_LANGUAGE_AVAILABLE, XML_LANGUAGE_AVAILABLE,
          lua_parser, xml_parser, nextHandle, pc, call, result, effect, constructed,
          threads, first, fs, tool>>

(***************************************************************************)
(* Bounds of the model.                                                    *)
(***************************************************************************)
NumThreads == 2
\* the deepest recursion a walk may be allowed before RecursionError
MaxFrames == 4

\* Python's None, for a parser slot and for a handle that was never obtained.
None == 0

(***************************************************************************)
(* Python str operations on sequences of characters.                       *)
(***************************************************************************)
LowerChar(c) ==
    CASE c = "A" -> "a" [] c = "B" -> "b" [] c = "C" -> "c" [] c = "L" -> "l"
      [] c = "M" -> "m" [] c = "O" -> "o" [] c = "U" -> "u" [] c = "X" -> "x"
      [] OTHER -> c

\* str.lower()
Lower(s) == [i \in 1..Len(s) |-> LowerChar(s[i])]

\* str.startswith(p)
StartsWith(s, p) == Len(s) >= Len(p) /\ SubSeq(s, 1, Len(p)) = p

\* str.endswith(p)
EndsWith(s, p) == Len(s) >= Len(p) /\ SubSeq(s, Len(s) - Len(p) + 1, Len(s)) = p

\* s[a:-b] for a, b >= 0 with b > 0: from index a up to Len(s) - b, empty when they cross
SliceFromTo(s, a, b) ==
    LET start == IF a < Len(s) THEN a ELSE Len(s)
        stop  == IF Len(s) - b > 0 THEN Len(s) - b ELSE 0
    IN  IF start >= stop THEN <<>> ELSE SubSeq(s, start + 1, stop)

\* sub in s
Contains(s, sub) ==
    \E i \in 1..(Len(s) - Len(sub) + 1) : SubSeq(s, i, i + Len(sub) - 1) = sub

IsSpace(c) == c \in {" ", "\t", "\n"}

\* str.strip()
Strip(s) ==
    LET keep == {i \in 1..Len(s) : ~IsSpace(s[i])}
    IN  IF keep = {} THEN <<>>
        ELSE LET lo == CHOOSE i \in keep : \A j \in keep : i <= j
                 hi == CHOOSE i \in keep : \A j \in keep : i >= j
             IN  SubSeq(s, lo, hi)

\* s.split(c, 1): the parts before and after the first c (one part when c is absent)
SplitFirst(s, c) ==
    LET at == {i \in 1..Len(s) : s[i] = c}
    IN  IF at = {} THEN <<s>>
        ELSE LET k == CHOOSE i \in at : \A j \in at : i <= j
             IN  <<SubSeq(s, 1, k - 1), SubSeq(s, k + 1, Len(s))>>

\* A Python value passed as a string argument: a str, or an object that is not one.
Str(s) == [isstr |-> TRUE, s |-> s]
NotAStr == [isstr |-> FALSE, s |-> <<>>]

LUA == <<"l", "u", "a">>
XML == <<"x", "m", "l">>

(***************************************************************************)
(* Syntax trees.  A node carries what the walks read: its type, the        *)
(* is_missing flag, its 0-based start point, the text of its byte span and *)
(* its children.                                                           *)
(***************************************************************************)
Node(type, is_missing, row, col, text, children) ==
    [type |-> type, is_missing |-> is_missing, row |-> row, col |-> col,
     text |-> text, children |-> children]

Leaf(type, row, col, text) == Node(type, FALSE, row, col, text, <<>>)

Missing(type, row, col) == Node(type, TRUE, row, col, <<>>, <<>>)

\* A diagnostic: one entry of the "errors" list.
Diag(line, column, type, node_type) ==
    [line |-> line, column |-> column, type |-> type, node_type |-> node_type]

(***************************************************************************)
(* The walks.  The walk state is the closure's `errors` list and           *)
(* `has_errors` flag, plus whether the recursion ran out of stack frames   *)
(* (RecursionError), which ends the walk where it stands.                  *)
(***************************************************************************)
WalkStart == [errors |-> <<>>, has_errors |-> FALSE, raised |-> FALSE]

\* Report with the flag forgotten: the diagnostic is appended, has_errors is not set
Report_FlagNotSet(st, d) == [st EXCEPT !.errors = Append(@, d)]

\* errors.append(d) together with has_errors = True
Report(st, d) == [st EXCEPT !.errors = Append(@, d), !.has_errors = TRUE]

\* CheckErrorNode reporting the node's 0-based start point as it stands
CheckErrorNode_ZeroBased(node, st) ==
    IF node.type = "ERROR"
    THEN Report(st, Diag(node.row, node.col, "syntax_error", "ERROR"))
    ELSE st

\* if node.type == "ERROR": a syntax_error at the node's 1-based start point
CheckErrorNode(node, st) ==
    IF node.type = "ERROR"
    THEN Report(st, Diag(node.row + 1, node.col + 1, "syntax_error", "ERROR"))
    ELSE st

\* if node.is_missing: a missing_node naming the node's type
CheckMissingNode(node, st) ==
    IF node.is_missing
    THEN Report(st, Diag(node.row + 1, node.col + 1, "missing_node", node.type))
    ELSE st

\* a binary_expression with fewer than 3 children
CheckBinaryExpression(node, st) ==
    IF node.type \in {"binary_expression", "unary_expression"}
       /\ node.type = "binary_expression" /\ Len(node.children) < 3
    THEN Report(st, Diag(node.row + 1, node.col + 1, "incomplete_expression",
                         "binary_expression"))
    ELSE st

RECURSIVE find_errors(_, _, _, _)
RECURSIVE find_errors_children(_, _, _, _, _)

\* find_errors not descending below a node that it reported
find_errors_StopsAtReported(node, st, depth, frames) ==
    IF st.raised THEN st
    ELSE IF depth > frames THEN [st EXCEPT !.raised = TRUE]
    ELSE LET own == CheckBinaryExpression(node,
                        CheckMissingNode(node, CheckErrorNode(node, st)))
         IN  IF Len(own.errors) > Len(st.errors) THEN own
             ELSE find_errors_children(node.children, 1, own, depth + 1, frames)

\* find_errors of check_lua_syntax; `frames` is how deep the recursion may go
find_errors(node, st, depth, frames) ==
    IF st.raised THEN st
    ELSE IF depth > frames THEN [st EXCEPT !.raised = TRUE]
    ELSE find_errors_children(
             node.children, 1,
             CheckBinaryExpression(node, CheckMissingNode(node, CheckErrorNode(node, st))),
             depth + 1, frames)

\* for child in node.children: find_errors(child, code_lines)
find_errors_children(children, i, st, depth, frames) ==
    IF i > Len(children) \/ st.raised THEN st
    ELSE find_errors_children(children, i + 1,
                              find_errors(children[i], st, depth, frames),
                              depth, frames)

\* LastChildOfType keeping the first child of the type instead of the last
LastChildOfType_First(node, type) ==
    LET at == {i \in 1..Len(node.children) : node.children[i].type = type}
    IN  IF at = {} THEN None ELSE CHOOSE i \in at : \A j \in at : i <= j

\* the last child of the given type, or None (the loop over node.children)
LastChildOfType(node, type) ==
    LET at == {i \in 1..Len(node.children) : node.children[i].type = type}
    IN  IF at = {} THEN None ELSE CHOOSE i \in at : \A j \in at : i >= j

\* CheckElement without the test for a self-closing start tag
CheckElement_NoSelfClosing(node, st) ==
    LET s == LastChildOfType(node, "start_tag")
        e == LastChildOfType(node, "end_tag")
    IN  IF s # None /\ e = None
        THEN Report(st, Diag(node.children[s].row + 1, node.children[s].col + 1,
                             "unclosed_tag", "element"))
        ELSE st

\* if node.type == "element": a start tag, no end tag, and not self-closing
CheckElement(node, st) ==
    LET s == LastChildOfType(node, "start_tag")
        e == LastChildOfType(node, "end_tag")
    IN  IF s # None /\ e = None /\ ~EndsWith(node.children[s].text, <<"/", ">">>)
        THEN Report(st, Diag(node.children[s].row + 1, node.children[s].col + 1,
                             "unclosed_tag", "element"))
        ELSE st

CommentOpen == <<"<", "!", "-", "-">>
CommentClose == <<"-", "-", ">">>

\* CheckComment looking at the content only when the comment is well delimited
CheckComment_ContentOnlyIfDelimited(node, st) ==
    IF ~StartsWith(node.text, CommentOpen) \/ ~EndsWith(node.text, CommentClose)
    THEN Report(st, Diag(node.row + 1, node.col + 1, "malformed_comment", "comment"))
    ELSE IF Contains(SliceFromTo(node.text, 4, 3), <<"-", "-">>)
    THEN Report(st, Diag(node.row + 1, node.col + 1, "invalid_comment_content",
                         "comment"))
    ELSE st

\* elif node.type == "comment": the two comment checks, in order
CheckComment(node, st) ==
    LET s1 == IF ~StartsWith(node.text, CommentOpen) \/ ~EndsWith(node.text, CommentClose)
              THEN Report(st, Diag(node.row + 1, node.col + 1, "malformed_comment",
                                   "comment"))
              ELSE st
    IN  IF Contains(SliceFromTo(node.text, 4, 3), <<"-", "-">>)
        THEN Report(s1, Diag(node.row + 1, node.col + 1, "invalid_comment_content",
                             "comment"))
        ELSE s1

\* elif node.type == "attribute": the value after the first '=' must be quoted
CheckAttribute(node, st) ==
    IF Contains(node.text, <<"=">>)
    THEN LET parts == SplitFirst(node.text, "=")
         IN  IF Len(parts) = 2
             THEN LET value_part == Strip(parts[2])
                  IN  IF ~((StartsWith(value_part, <<"\"">>) /\ EndsWith(value_part, <<"\"">>))
                           \/ (StartsWith(value_part, <<"'">>) /\ EndsWith(value_part, <<"'">>)))
                      THEN Report(st, Diag(node.row + 1, node.col + 1,
                                           "unquoted_attribute", "attribute"))
                      ELSE st
             ELSE st
    ELSE st

\* the chain on the node's type preceded by the binary_expression check of the
\* Lua walk
CheckXmlRules_WithExpressionCheck(node, st) ==
    LET s == CheckBinaryExpression(node, st)
    IN  IF node.type = "element" THEN CheckElement(node, s)
        ELSE IF node.type = "comment" THEN CheckComment(node, s)
        ELSE IF node.type = "attribute" THEN CheckAttribute(node, s)
        ELSE s

\* the if / elif / elif chain on the node's type
CheckXmlRules(node, st) ==
    IF node.type = "element" THEN CheckElement(node, st)
    ELSE IF node.type = "comment" THEN CheckComment(node, st)
    ELSE IF node.type = "attribute" THEN CheckAttribute(node, st)
    ELSE st

RECURSIVE find_xml_errors(_, _, _, _)
RECURSIVE find_xml_errors_children(_, _, _, _, _)

\* find_xml_errors of check_xml_syntax
find_xml_errors(node, st, depth, frames) ==
    IF st.raised THEN st
    ELSE IF depth > frames THEN [st EXCEPT !.raised = TRUE]
    ELSE find_xml_errors_children(
             node.children, 1,
             CheckXmlRules(node, CheckMissingNode(node, CheckErrorNode(node, st))),
             depth + 1, frames)

\* for child in node.children: find_xml_errors(child, code_lines)
find_xml_errors_children(children, i, st, depth, frames) ==
    IF i > Len(children) \/ st.raised THEN st
    ELSE find_xml_errors_children(children, i + 1,
                                  find_xml_errors(children[i], st, depth, frames),
                                  depth, frames)

(***************************************************************************)
(* The trees the parser is taken to return.  Texts are the node's source   *)
(* span; only start tags, comments and attributes have their text read.    *)
(***************************************************************************)
NoText == <<>>

LuaTrees ==
    { Node("chunk", FALSE, 0, 0, NoText, <<>>),
      Node("chunk", FALSE, 0, 0, NoText,
           <<Leaf("identifier", 0, 0, NoText), Leaf("number", 0, 4, NoText)>>),
      Node("chunk", FALSE, 0, 0, NoText, <<Leaf("ERROR", 0, 4, NoText)>>),
      Node("chunk", FALSE, 0, 0, NoText, <<Missing("identifier", 1, 2)>>),
      Node("chunk", FALSE, 0, 0, NoText, <<Missing("ERROR", 2, 0)>>),
      Node("chunk", FALSE, 0, 0, NoText,
           <<Node("binary_expression", FALSE, 0, 10, NoText,
                  <<Leaf("identifier", 0, 10, NoText), Leaf("+", 0, 12, NoText)>>)>>),
      Node("chunk", FALSE, 0, 0, NoText,
           <<Node("binary_expression", FALSE, 0, 10, NoText,
                  <<Leaf("number", 0, 10, NoText), Leaf("+", 0, 12, NoText),
                    Leaf("number", 0, 14, NoText)>>)>>),
      Node("chunk", FALSE, 0, 0, NoText,
           <<Node("ERROR", FALSE, 0, 3, NoText, <<Missing("number", 0, 5)>>),
             Node("binary_expression", FALSE, 1, 0, NoText, <<>>)>>),
      Node("chunk", FALSE, 0, 0, NoText,
           <<Node("unary_expression", FALSE, 0, 0, NoText, <<>>)>>),
      Node("ERROR", FALSE, 0, 0, NoText, <<Leaf("identifier", 0, 0, NoText)>>) }

StartA == <<"<", "a", ">">>
StartSelfClosing == <<"<", "b", "/", ">">>
EndA == <<"<", "/", "a", ">">>
CommentGood == <<"<", "!", "-", "-", "n", "-", "-", ">">>
CommentDashes == <<"<", "!", "-", "-", "a", "-", "-", "b", "-", "-", ">">>
CommentCut == <<"<", "!", "-">>
CommentOverlap == <<"<", "!", "-", "-", "-", ">">>
CommentBoth == <<"<", "!", "-", "-", "a", "-", "-", "b", "c", "d">>
AttrDouble == <<"i", "=", "\"", "1", "\"">>
AttrSingle == <<"i", "=", "'", "1", "'">>
AttrBare == <<"i", "=", "1">>
AttrMixed == <<"i", "=", "\"", "1", "'">>
AttrSpaced == <<"i", "=", " ", "'", "=", "'", " ">>
AttrLoneQuote == <<"i", "=", "\"">>
AttrNoValue == <<"i">>

XmlDoc(children) == Node("document", FALSE, 0, 0, NoText, children)

XmlElement(row, col, children) == Node("element", FALSE, row, col, NoText, children)

\* an element whose start tag holds one attribute with the given text
XmlWithAttribute(text) ==
    XmlDoc(<<XmlElement(0, 0,
              <<Node("start_tag", FALSE, 0, 0, StartA, <<Leaf("attribute", 0, 3, text)>>),
                Leaf("end_tag", 0, 9, EndA)>>)>>)

XmlTrees ==
    { XmlDoc(<<XmlElement(0, 0,
                <<Leaf("start_tag", 0, 0, StartA),
                  Leaf("comment", 0, 3, CommentGood),
                  XmlElement(0, 11, <<Leaf("start_tag", 0, 11, StartSelfClosing)>>),
                  Leaf("end_tag", 0, 15, EndA)>>)>>),
      XmlDoc(<<XmlElement(1, 2, <<Leaf("start_tag", 1, 2, StartA)>>)>>),
      XmlDoc(<<XmlElement(0, 0,
                <<Leaf("start_tag", 0, 0, StartA), Leaf("ERROR", 0, 3, NoText)>>)>>),
      XmlDoc(<<XmlElement(0, 0,
                <<Leaf("start_tag", 0, 0, StartA),
                  XmlElement(0, 3, <<Leaf("start_tag", 0, 3, StartA)>>),
                  Leaf("end_tag", 0, 6, EndA)>>)>>),
      XmlDoc(<<XmlElement(0, 0, <<Leaf("end_tag", 0, 0, EndA)>>)>>),
      XmlDoc(<<XmlElement(0, 0,
                <<Leaf("start_tag", 0, 0, StartSelfClosing),
                  Leaf("start_tag", 0, 4, StartA)>>)>>),
      XmlDoc(<<Leaf("comment", 0, 0, CommentDashes)>>),
      XmlDoc(<<Leaf("comment", 2, 1, CommentCut)>>),
      XmlDoc(<<Leaf("comment", 0, 0, CommentOverlap)>>),
      XmlDoc(<<Leaf("comment", 0, 0, CommentBoth)>>),
      XmlDoc(<<Missing("comment", 0, 5)>>),
      XmlWithAttribute(AttrDouble),
      XmlWithAttribute(AttrSingle),
      XmlWithAttribute(AttrBare),
      XmlWithAttribute(AttrMixed),
      XmlWithAttribute(AttrSpaced),
      XmlWithAttribute(AttrLoneQuote),
      XmlWithAttribute(AttrNoValue),
      XmlDoc(<<Node("binary_expression", FALSE, 0, 0, NoText,
                    <<Leaf("number", 0, 0, NoText)>>)>>),
      XmlDoc(<<>>) }

Trees == LuaTrees \cup XmlTrees

\* The code argument: the tree a parser returns for it and the root's has_error flag.
Codes == [tree : Trees, has_error : BOOLEAN]

\* The language argument: identifiers in several cases, and an object that is no str.
Languages ==
    { Str(LUA), Str(<<"L", "U", "A">>), Str(<<"L", "u", "a">>),
      Str(XML), Str(<<"X", "M", "L">>),
      Str(<<"c", "o", "b", "o", "l">>), Str(<<>>), NotAStr }

(***************************************************************************)
(* The outcome of each step of a call that can raise.  One step at most    *)
(* fails in a call, since the first failure ends it.                       *)
(***************************************************************************)
NoFault == [construct_ok |-> TRUE, encode_ok |-> TRUE, parse_ok |-> TRUE,
            frames |-> MaxFrames]

Outcomes ==
    {NoFault, [NoFault EXCEPT !.construct_ok = FALSE],
     [NoFault EXCEPT !.encode_ok = FALSE], [NoFault EXCEPT !.parse_ok = FALSE]}
    \cup {[NoFault EXCEPT !.frames = f] : f \in 1..MaxFrames}

(***************************************************************************)
(* Results.                                                                *)
(***************************************************************************)
Result(has_errors, is_valid, errors, language, available) ==
    [has_errors |-> has_errors, is_valid |-> is_valid, errors |-> errors,
     language |-> language, available |-> available]

\* the literal dictionaries with one diagnostic at the sentinel position (0, 0)
SingleError(type, node_type, language, available) ==
    Result(TRUE, FALSE, <<Diag(0, 0, type, node_type)>>, language, available)

(***************************************************************************)
(* Parser acquisition.  An acquisition yields the handle it returns, the   *)
(* value it leaves in the class slot, and whether it tried to construct a  *)
(* parser and whether that construction succeeded.                         *)
(***************************************************************************)
Acquired(ret, slot, tried, built) ==
    [called |-> TRUE, ret |-> ret, slot |-> slot, tried |-> tried, built |-> built]

NotAcquired(slot) ==
    [called |-> FALSE, ret |-> None, slot |-> slot, tried |-> FALSE, built |-> FALSE]

\* get_parser without the `is None` test: a parser is constructed on every call
get_parser_NoCache(language_available, slot, construct_ok) ==
    IF ~TREE_SITTER_AVAILABLE \/ ~language_available
    THEN Acquired(None, slot, FALSE, FALSE)
    ELSE IF construct_ok
         THEN Acquired(nextHandle, nextHandle, TRUE, TRUE)
         ELSE Acquired(None, slot, TRUE, FALSE)

\* the body shared by _get_lua_parser and _get_xml_parser, on one language's slot
get_parser(language_available, slot, construct_ok) ==
    IF ~TREE_SITTER_AVAILABLE \/ ~language_available
    THEN Acquired(None, slot, FALSE, FALSE)
    ELSE IF slot = None
         THEN IF construct_ok
              THEN Acquired(nextHandle, nextHandle, TRUE, TRUE)
              ELSE Acquired(None, slot, TRUE, FALSE)
         ELSE Acquired(slot, slot, FALSE, FALSE)

\* get_lua_parser falling off its end after a construction: the new parser is
\* stored in the slot and None is returned
get_lua_parser_NoReturnAfterBuild(construct_ok) ==
    LET a == get_parser(LUA_LANGUAGE_AVAILABLE, lua_parser, construct_ok)
    IN  IF a.built THEN [a EXCEPT !.ret = None] ELSE a

get_lua_parser(construct_ok) ==
    get_parser(LUA_LANGUAGE_AVAILABLE, lua_parser, construct_ok)

\* get_xml_parser remembering a failed construction: the slot is marked, so that
\* no later call finds it empty
get_xml_parser_CachesFailure(construct_ok) ==
    LET a == get_parser(XML_LANGUAGE_AVAILABLE, xml_parser, construct_ok)
    IN  IF a.tried /\ ~a.built THEN [a EXCEPT !.slot = -1] ELSE a

get_xml_parser(construct_ok) ==
    get_parser(XML_LANGUAGE_AVAILABLE, xml_parser, construct_ok)

(***************************************************************************)
(* The checks.  Each yields the result, the acquisition it made, whether   *)
(* parser.parse was called, and the step that raised, if one did.          *)
(***************************************************************************)
Done(which, res, acq, parsed, raised) ==
    [which |-> which, result |-> res, acq |-> acq, parsed |-> parsed, raised |-> raised]

\* the step of an acquisition that raised: a construction tried and not completed
AcqRaised(acq) == IF acq.tried /\ ~acq.built THEN "construct" ELSE "none"

\* the dictionary of the missing-grammar branch
GrammarMissing(node_type, language) ==
    SingleError("dependency_error", node_type, language, FALSE)

\* the `parser is None` branch returning the dictionary of the missing-grammar branch
ParserMissing_AsMissingGrammar(language) ==
    SingleError("dependency_error", "missing_lua_parser", language, FALSE)

\* the dictionary of the `parser is None` branch
ParserMissing(language) ==
    SingleError("parser_error", "initialization_error", language, FALSE)

\* InternalError appending to the list the walk had filled, not a fresh one
InternalError_KeepsErrors(st, language) ==
    Result(TRUE, FALSE, Append(st.errors, Diag(0, 0, "internal_error", "exception")),
           language, TRUE)

\* the dictionary built by the except clause of a check, whatever the walk had
\* accumulated in `st` when the exception was raised
InternalError(st, language) ==
    SingleError("internal_error", "exception", language, TRUE)

\* AfterWalk without the `not has_errors` test
AfterWalk_Unconditional(w, code) ==
    IF code.has_error
    THEN Report(w, Diag(1, 1, "general_syntax_error", "unknown"))
    ELSE w

\* the check after the walk: the root's has_error flag with nothing reported
AfterWalk(w, code) ==
    IF ~w.has_errors /\ code.has_error
    THEN Report(w, Diag(1, 1, "general_syntax_error", "unknown"))
    ELSE w

\* WalkResult with is_valid a constant
WalkResult_AlwaysValid(w, language) ==
    Result(w.has_errors, TRUE, w.errors, language, TRUE)

\* the dictionary returned after the walk
WalkResult(w, language) ==
    Result(w.has_errors, ~w.has_errors, w.errors, language, TRUE)

\* check_lua_syntax from code.encode on, with the parser obtained
lua_parse_and_walk(code, oc, acq) ==
    IF ~oc.encode_ok
    THEN Done("lua", InternalError(WalkStart, Str(LUA)), acq, FALSE, "encode")
    ELSE IF ~oc.parse_ok
    THEN Done("lua", InternalError(WalkStart, Str(LUA)), acq, TRUE, "parse")
    ELSE LET w == find_errors(code.tree, WalkStart, 1, oc.frames)
         IN  IF w.raised
             THEN Done("lua", InternalError(w, Str(LUA)), acq, TRUE, "walk")
             ELSE Done("lua", WalkResult(AfterWalk(w, code), Str(LUA)), acq, TRUE, "none")

\* check_lua_syntax once the Lua grammar is known to be available
lua_with_grammar(code, oc) ==
    LET acq == get_lua_parser(oc.construct_ok)
    IN  IF acq.ret = None
        THEN Done("lua", ParserMissing(Str(LUA)), acq, FALSE, AcqRaised(acq))
        ELSE lua_parse_and_walk(code, oc, acq)

\* check_lua_syntax without the test of LUA_LANGUAGE_AVAILABLE
check_lua_syntax_NoGrammarCheck(code, oc) == lua_with_grammar(code, oc)

check_lua_syntax(code, oc) ==
    IF ~LUA_LANGUAGE_AVAILABLE
    THEN Done("lua", GrammarMissing("missing_lua_parser", Str(LUA)),
              NotAcquired(lua_parser), FALSE, "none")
    ELSE lua_with_grammar(code, oc)

\* check_xml_syntax from code.encode on, with the parser obtained
xml_parse_and_walk(code, oc, acq) ==
    IF ~oc.encode_ok
    THEN Done("xml", InternalError(WalkStart, Str(XML)), acq, FALSE, "encode")
    ELSE IF ~oc.parse_ok
    THEN Done("xml", InternalError(WalkStart, Str(XML)), acq, TRUE, "parse")
    ELSE LET w == find_xml_errors(code.tree, WalkStart, 1, oc.frames)
         IN  IF w.raised
             THEN Done("xml", InternalError(w, Str(XML)), acq, TRUE, "walk")
             ELSE Done("xml", WalkResult(AfterWalk(w, code), Str(XML)), acq, TRUE, "none")

\* check_xml_syntax once the XML grammar is known to be available
xml_with_grammar(code, oc) ==
    LET acq == get_xml_parser(oc.construct_ok)
    IN  IF acq.ret = None
        THEN Done("xml", ParserMissing(Str(XML)), acq, FALSE, AcqRaised(acq))
        ELSE xml_parse_and_walk(code, oc, acq)

check_xml_syntax(code, oc) ==
    IF ~XML_LANGUAGE_AVAILABLE
    THEN Done("xml", GrammarMissing("missing_xml_parser", Str(XML)),
              NotAcquired(xml_parser), FALSE, "none")
    ELSE xml_with_grammar(code, oc)

\* the dictionary of the runtime-unavailable branch of check_syntax
RuntimeMissing(language) ==
    SingleError("dependency_error", "missing_dependency", language, FALSE)

\* Unsupported with the `available` of the dependency branches
Unsupported_Unavailable(language) ==
    SingleError("unsupported_language", "language_error", language, FALSE)

\* the dictionary of the else branch of the dispatch
Unsupported(language) ==
    SingleError("unsupported_language", "language_error", language, TRUE)

\* the dispatch on language.lower(); lower() raises on an object that is no str,
\* and the except clause of check_syntax builds the result
dispatch(code, language, oc) ==
    IF ~language.isstr
    THEN Done("none", SingleError("internal_error", "exception", language,
                                  TREE_SITTER_AVAILABLE),
              NotAcquired(None), FALSE, "dispatch")
    ELSE IF Lower(language.s) = LUA THEN check_lua_syntax(code, oc)
    ELSE IF Lower(language.s) = XML THEN check_xml_syntax(code, oc)
    ELSE Done("none", Unsupported(language), NotAcquired(None), FALSE, "none")

\* check_syntax dispatching before it looks at TREE_SITTER_AVAILABLE
check_syntax_NoRuntimeCheck(code, language, oc) == dispatch(code, language, oc)

check_syntax(code, language, oc) ==
    IF ~TREE_SITTER_AVAILABLE
    THEN Done("none", RuntimeMissing(language), NotAcquired(None), FALSE, "none")
    ELSE dispatch(code, language, oc)

(***************************************************************************)
(* The queries on the module's flags.                                      *)
(***************************************************************************)
\* get_supported_languages listing a language on its grammar's flag alone
get_supported_languages_GrammarOnly ==
    (IF LUA_LANGUAGE_AVAILABLE THEN <<LUA>> ELSE <<>>)
    \o (IF XML_LANGUAGE_AVAILABLE THEN <<XML>> ELSE <<>>)

\* supported = []; "lua" appended, then "xml", each under its two flags
get_supported_languages ==
    (IF TREE_SITTER_AVAILABLE /\ LUA_LANGUAGE_AVAILABLE THEN <<LUA>> ELSE <<>>)
    \o (IF TREE_SITTER_AVAILABLE /\ XML_LANGUAGE_AVAILABLE THEN <<XML>> ELSE <<>>)

is_available == TREE_SITTER_AVAILABLE

get_dependency_status ==
    [tree_sitter |-> TREE_SITTER_AVAILABLE,
     tree_sitter_lua |-> LUA_LANGUAGE_AVAILABLE,
     tree_sitter_xml |-> XML_LANGUAGE_AVAILABLE]

(***************************************************************************)
(* The sequential program: one caller, one call at a time.                 *)
(***************************************************************************)
NoCall == [op |-> "none"]
NoResult == [none |-> TRUE]
NoEffect == [which |-> "none"]
NoFirst == [none |-> TRUE]
\* a file's state: whether it exists, and its text
Absent == [exists |-> FALSE, text |-> <<>>]
File(text) == [exists |-> TRUE, text |-> text]
NoFile == [path |-> <<>>, content |-> Absent]
NoTool == [op |-> "none"]

IdleThread == [pc |-> "idle"]

Init ==
    /\ TREE_SITTER_AVAILABLE \in BOOLEAN
    /\ LUA_LANGUAGE_AVAILABLE \in BOOLEAN
    /\ XML_LANGUAGE_AVAILABLE \in BOOLEAN
    /\ lua_parser = None
    /\ xml_parser = None
    /\ nextHandle = 1
    /\ pc = "idle"
    /\ call = NoCall
    /\ result = NoResult
    /\ effect = NoEffect
    /\ constructed = [l \in {"lua", "xml"} |-> {}]
    /\ threads = [t \in 1..NumThreads |-> IdleThread]
    /\ first = NoFirst
    /\ fs = NoFile
    /\ tool = NoTool

\* the state change of a finished call `d`, made with the arguments `c`
Finish(c, d) ==
    /\ pc' = "returned"
    /\ call' = c
    /\ result' = d.result
    /\ effect' = [which |-> d.which, called |-> d.acq.called, tried |-> d.acq.tried,
                  built |-> d.acq.built, parsed |-> d.parsed, handle |-> d.acq.ret,
                  raised |-> d.raised,
                  lua_before |-> lua_parser, xml_before |-> xml_parser]
    /\ lua_parser' = IF d.which = "lua" THEN d.acq.slot ELSE lua_parser
    /\ xml_parser' = IF d.which = "xml" THEN d.acq.slot ELSE xml_parser
    /\ nextHandle' = IF d.acq.built THEN nextHandle + 1 ELSE nextHandle
    /\ constructed' = IF d.acq.built
                      THEN [constructed EXCEPT ![d.which] = @ \cup {d.acq.ret}]
                      ELSE constructed
    /\ UNCHANGED <<TREE_SITTER_AVAILABLE, LUA_LANGUAGE_AVAILABLE,
                   XML_LANGUAGE_AVAILABLE, threads, fs, tool>>

\* SyntaxChecker.check_syntax(code, language)
CheckSyntax ==
    /\ pc = "idle"
    /\ \E code \in Codes, language \in Languages, oc \in Outcomes :
          Finish([op |-> "check_syntax", code |-> code, language |-> language, oc |-> oc],
                 check_syntax(code, language, oc))
    /\ first' = NoFirst

\* SyntaxChecker.check_lua_syntax(code), called directly
CheckLuaSyntax ==
    /\ pc = "idle"
    /\ \E code \in Codes, oc \in Outcomes :
          Finish([op |-> "check_lua_syntax", code |-> code, language |-> Str(LUA),
                  oc |-> oc],
                 check_lua_syntax(code, oc))
    /\ first' = NoFirst

\* SyntaxChecker.check_xml_syntax(code), called directly
CheckXmlSyntax ==
    /\ pc = "idle"
    /\ \E code \in Codes, oc \in Outcomes :
          Finish([op |-> "check_xml_syntax", code |-> code, language |-> Str(XML),
                  oc |-> oc],
                 check_xml_syntax(code, oc))
    /\ first' = NoFirst

\* the state change of a query that only reads the module's flags
Answer(op, value) ==
    /\ pc = "idle"
    /\ pc' = "answered"
    /\ call' = [op |-> op]
    /\ result' = [value |-> value]
    /\ UNCHANGED <<TREE_SITTER_AVAILABLE, LUA_LANGUAGE_AVAILABLE, XML_LANGUAGE_AVAILABLE,
                   lua_parser, xml_parser, nextHandle, effect, constructed, threads,
                   first, fs, tool>>

\* SyntaxChecker.get_supported_languages()
GetSupportedLanguages == Answer("get_supported_languages", get_supported_languages)

\* SyntaxChecker.is_available()
IsAvailable == Answer("is_available", is_available)

\* SyntaxChecker.get_dependency_status()
GetDependencyStatus == Answer("get_dependency_status", get_dependency_status)

\* the caller has read the result and drops it
Return ==
    /\ pc \in {"returned", "answered"}
    /\ pc' = "idle"
    /\ call' = NoCall
    /\ result' = NoResult
    /\ effect' = NoEffect
    /\ first' = NoFirst
    /\ UNCHANGED <<TREE_SITTER_AVAILABLE, LUA_LANGUAGE_AVAILABLE, XML_LANGUAGE_AVAILABLE,
                   lua_parser, xml_parser, nextHandle, constructed, threads, fs, tool>>

Next ==
    \/ CheckSyntax \/ CheckLuaSyntax \/ CheckXmlSyntax
    \/ GetSupportedLanguages \/ IsAvailable \/ GetDependencyStatus
    \/ Return

Spec == Init /\ [][Next]_vars

(***************************************************************************)
(* The sequential program with a caller that may call check_syntax a       *)
(* second time with the arguments of the call that just returned, keeping  *)
(* the first result to compare.                                            *)
(***************************************************************************)
\* SyntaxChecker.check_syntax(code, language) again, right after it returned
CheckSyntaxAgain ==
    /\ pc = "returned"
    /\ call.op = "check_syntax"
    /\ first = NoFirst
    /\ \E oc \in Outcomes :
          Finish([op |-> "check_syntax", code |-> call.code, language |-> call.language,
                  oc |-> oc],
                 check_syntax(call.code, call.language, oc))
    /\ first' = [oc |-> call.oc, result |-> result, effect |-> effect]

NextTwice == CheckSyntax \/ CheckSyntaxAgain \/ Return

SpecTwice == Init /\ [][NextTwice]_vars

(***************************************************************************)
(* The concurrent program: NumThreads callers of check_syntax.  A call is  *)
(* atomic except where it touches the shared class slots: the test of the  *)
(* slot, the construction of a parser, the store into the slot and the     *)
(* load of the slot for the return value are separate steps, as no lock is *)
(* held between them.                                                      *)
(***************************************************************************)
Thread == 1..NumThreads

\* the codes and parse outcomes the concurrent callers use
ThreadCodes == {c \in Codes : c.tree \in {CHOOSE t \in LuaTrees : t.children = <<>>}}

Slot(which) == IF which = "lua" THEN lua_parser ELSE xml_parser

SetSlot(which, h) ==
    /\ lua_parser' = IF which = "lua" THEN h ELSE lua_parser
    /\ xml_parser' = IF which = "xml" THEN h ELSE xml_parser

EnvUnchanged ==
    UNCHANGED <<TREE_SITTER_AVAILABLE, LUA_LANGUAGE_AVAILABLE, XML_LANGUAGE_AVAILABLE,
                pc, call, result, effect, first, fs, tool>>

\* check_syntax up to the test of the slot in _get_lua_parser / _get_xml_parser;
\* a call that returns before needing a parser is finished here
T_Call(t) ==
    /\ threads[t].pc = "idle"
    /\ \E code \in ThreadCodes, language \in Languages :
          LET d == check_syntax(code, language, NoFault)
          IN  threads' = [threads EXCEPT ![t] =
                  IF d.acq.called
                  THEN [pc |-> "test", which |-> d.which, code |-> code,
                        parser |-> None, used |-> None]
                  ELSE [pc |-> "done", which |-> d.which, used |-> None,
                        result |-> d.result]]
    /\ UNCHANGED <<lua_parser, xml_parser, nextHandle, constructed>>
    /\ EnvUnchanged

\* if cls._lua_parser is None:
T_Test(t) ==
    /\ threads[t].pc = "test"
    /\ threads' = [threads EXCEPT ![t].pc =
                      IF Slot(threads[t].which) = None THEN "construct" ELSE "load"]
    /\ UNCHANGED <<lua_parser, xml_parser, nextHandle, constructed>>
    /\ EnvUnchanged

\* Parser(Language(...)): a new parser object, or an exception and return None
T_Construct(t) ==
    /\ threads[t].pc = "construct"
    /\ \/ /\ threads' = [threads EXCEPT ![t].pc = "store", ![t].parser = nextHandle]
          /\ nextHandle' = nextHandle + 1
          /\ constructed' = [constructed EXCEPT ![threads[t].which] = @ \cup {nextHandle}]
       \/ /\ threads' = [threads EXCEPT ![t] =
                 [pc |-> "done", which |-> threads[t].which, used |-> None,
                  result |-> ParserMissing(Str(IF threads[t].which = "lua"
                                               THEN LUA ELSE XML))]]
          /\ UNCHANGED <<nextHandle, constructed>>
    /\ UNCHANGED <<lua_parser, xml_parser>>
    /\ EnvUnchanged

\* cls._lua_parser = <the new parser>
T_Store(t) ==
    /\ threads[t].pc = "store"
    /\ SetSlot(threads[t].which, threads[t].parser)
    /\ threads' = [threads EXCEPT ![t].pc = "load"]
    /\ UNCHANGED <<nextHandle, constructed>>
    /\ EnvUnchanged

\* return cls._lua_parser
T_Load(t) ==
    /\ threads[t].pc = "load"
    /\ threads' = [threads EXCEPT ![t].pc = "parse", ![t].used = Slot(threads[t].which)]
    /\ UNCHANGED <<lua_parser, xml_parser, nextHandle, constructed>>
    /\ EnvUnchanged

\* the rest of check_lua_syntax / check_xml_syntax with the handle obtained
T_Parse(t) ==
    /\ threads[t].pc = "parse"
    /\ \E oc \in Outcomes :
          LET me == threads[t]
              acq == Acquired(me.used, me.used, FALSE, FALSE)
              d == IF me.which = "lua" THEN lua_parse_and_walk(me.code, oc, acq)
                   ELSE xml_parse_and_walk(me.code, oc, acq)
          IN  threads' = [threads EXCEPT ![t] =
                  [pc |-> "done", which |-> me.which, used |-> me.used,
                   result |-> d.result]]
    /\ UNCHANGED <<lua_parser, xml_parser, nextHandle, constructed>>
    /\ EnvUnchanged

\* the caller has read the result and drops it
T_Return(t) ==
    /\ threads[t].pc = "done"
    /\ threads' = [threads EXCEPT ![t] = IdleThread]
    /\ UNCHANGED <<lua_parser, xml_parser, nextHandle, constructed>>
    /\ EnvUnchanged

NextConc ==
    \E t \in Thread :
        T_Call(t) \/ T_Test(t) \/ T_Construct(t) \/ T_Store(t) \/ T_Load(t)
        \/ T_Parse(t) \/ T_Return(t)

SpecConc == Init /\ [][NextConc]_vars

(***************************************************************************)
(* The file tools, create_file and replace_code_by_line.  A file's content *)
(* is a string, when the file exists.                                      *)
(***************************************************************************)
\* the most items of a replacements list
MaxReplacements == 2
\* the highest line number a replacement names
MaxLineNo == 2

\* the greatest element of a set of naturals, 0 for the empty set
Last(S) == IF S = {} THEN 0 ELSE CHOOSE i \in S : \A j \in S : j <= i

\* os.path.splitext(p)[1]: the text from the last dot of the last path component
\* on, empty when that component has no dot or only dots before it
splitext_ext(p) ==
    LET sep == Last({i \in 1..Len(p) : p[i] = "/"})
        dot == Last({i \in 1..Len(p) : p[i] = "."})
    IN  IF dot > sep /\ \E k \in (sep + 1)..(dot - 1) : p[k] # "."
        THEN SubSeq(p, dot, Len(p))
        ELSE <<>>

DotLua == <<".", "l", "u", "a">>

\* file_extension == '.lua', with file_extension = os.path.splitext(file_path)[1].lower()
IsLuaFile(p) == Lower(splitext_ext(p)) = DotLua

RECURSIVE readlines(_)
\* file.readlines(): the lines of a text, each with its newline
readlines(s) ==
    LET nl == {i \in 1..Len(s) : s[i] = "\n"}
    IN  IF s = <<>> THEN <<>>
        ELSE IF nl = {} THEN <<s>>
        ELSE LET k == CHOOSE i \in nl : \A j \in nl : i <= j
             IN  <<SubSeq(s, 1, k)>> \o readlines(SubSeq(s, k + 1, Len(s)))

RECURSIVE writelines(_)
\* file.writelines(lines): the lines one after the other
writelines(lines) ==
    IF lines = <<>> THEN <<>> ELSE Head(lines) \o writelines(Tail(lines))

\* Python values found under the key "line"
PyInt(n) == [kind |-> "int", n |-> n, s |-> <<>>]
\* a float with the given whole part and a fractional part that is not zero
PyFloat(n) == [kind |-> "float", n |-> n, s |-> <<>>]
PyStr(s) == [kind |-> "str", n |-> 0, s |-> s]
PyNone == [kind |-> "none", n |-> 0, s |-> <<>>]

Digit(c) ==
    CASE c = "0" -> 0 [] c = "1" -> 1 [] c = "2" -> 2 [] c = "3" -> 3 [] c = "4" -> 4
      [] c = "5" -> 5 [] c = "6" -> 6 [] c = "7" -> 7 [] c = "8" -> 8 [] c = "9" -> 9
      [] OTHER -> -1

RECURSIVE DigitsValue(_, _)
\* the number a string of decimal digits writes
DigitsValue(s, acc) ==
    IF s = <<>> THEN acc ELSE DigitsValue(Tail(s), acc * 10 + Digit(Head(s)))

\* int(v): the integer, or the ValueError / TypeError the validation catches
int(v) ==
    CASE v.kind = "int" -> [ok |-> TRUE, n |-> v.n]
      [] v.kind = "float" -> [ok |-> TRUE, n |-> v.n]
      [] v.kind = "str" ->
            LET t == Strip(v.s)
            IN  IF t # <<>> /\ \A i \in 1..Len(t) : Digit(t[i]) >= 0
                THEN [ok |-> TRUE, n |-> DigitsValue(t, 0)]
                ELSE [ok |-> FALSE, n |-> 0]
      [] OTHER -> [ok |-> FALSE, n |-> 0]

\* one element of the replacements list: a dict with some of the keys, or not a dict
Item(keys, line, code) == [isdict |-> TRUE, keys |-> keys, line |-> line, code |-> code]
NotADict == [isdict |-> FALSE, keys |-> {}, line |-> PyNone, code |-> NotAStr]

Invalid(error) == [ok |-> FALSE, error |-> error, items |-> <<>>]

RECURSIVE validate_items(_, _, _, _)
\* the loop over enumerate(replacements): the first error, or the validated list
validate_items(items, i, line_numbers, validated) ==
    IF i > Len(items) THEN [ok |-> TRUE, error |-> "", items |-> validated]
    ELSE LET item == items[i]
             line_num == int(item.line)
         IN  IF ~item.isdict THEN Invalid("not_a_dict")
             ELSE IF "line" \notin item.keys THEN Invalid("missing_line")
             ELSE IF "code" \notin item.keys THEN Invalid("missing_code")
             ELSE IF ~line_num.ok THEN Invalid("line_not_integer")
             ELSE IF line_num.n < 1 THEN Invalid("line_below_1")
             ELSE IF line_num.n \in line_numbers THEN Invalid("duplicate_line")
             ELSE IF ~item.code.isstr THEN Invalid("code_not_string")
             ELSE validate_items(items, i + 1, line_numbers \cup {line_num.n},
                                 Append(validated,
                                        [line |-> line_num.n, code |-> item.code.s]))

\* the validation of the replacements argument
validate(replacements) ==
    IF ~replacements.islist THEN Invalid("not_a_list")
    ELSE IF replacements.items = <<>> THEN Invalid("empty_list")
    ELSE validate_items(replacements.items, 1, {}, <<>>)

\* new_code with a newline added when it does not end with one
WithNewline(code) == IF EndsWith(code, <<"\n">>) THEN code ELSE Append(code, "\n")

\* the new lines: the original ones, extended with "\n" lines up to the highest
\* line number, with each validated replacement put in its line
replace_lines(original_lines, validated) ==
    LET total_lines == Len(original_lines)
        max_line_number == Last({validated[k].line : k \in 1..Len(validated)})
        extended == [k \in 1..(IF max_line_number > total_lines
                               THEN max_line_number ELSE total_lines) |->
                        IF k <= total_lines THEN original_lines[k] ELSE <<"\n">>]
    IN  [k \in 1..Len(extended) |->
            IF \E j \in 1..Len(validated) : validated[j].line = k
            THEN WithNewline(validated[CHOOSE j \in 1..Len(validated) :
                                          validated[j].line = k].code)
            ELSE extended[k]]

\* what a tool call comes to: its reply, the file's content afterwards, and the
\* text it passes to the checker, if it calls it
Reply(message, content, check, checked_content) ==
    [message |-> message, content |-> content, check |-> check,
     checked_content |-> checked_content]

\* replace_code_by_line up to its return, but for the call of the checker; `io`
\* is how the operating system answers the file operations
replace_code_by_line(file_path, replacements, io) ==
    LET v == validate(replacements)
        new_content == writelines(replace_lines(readlines(fs.content.text), v.items))
    IN  IF file_path = <<>> THEN Reply("error_empty_path", fs.content, FALSE, <<>>)
        ELSE IF ~fs.content.exists THEN Reply("error_not_exists", fs.content, FALSE, <<>>)
        ELSE IF io = "denied" THEN Reply("error_no_permission", fs.content, FALSE, <<>>)
        ELSE IF ~v.ok THEN Reply("error_" \o v.error, fs.content, FALSE, <<>>)
        ELSE IF io = "read_fails" THEN Reply("error_read", fs.content, FALSE, <<>>)
        ELSE IF io = "open_fails" THEN Reply("error_write", fs.content, FALSE, <<>>)
        ELSE IF io = "write_fails" THEN Reply("error_write", File(<<>>), FALSE, <<>>)
        ELSE IF IsLuaFile(file_path)
        THEN Reply("replaced", File(new_content), TRUE, new_content)
        ELSE Reply("replaced", File(new_content), FALSE, <<>>)

\* create_file up to its return, but for the call of the checker
create_file(file_path, content, io) ==
    IF file_path.isstr /\ file_path.s = <<>>
    THEN Reply("error_empty_path", fs.content, FALSE, <<>>)
    ELSE IF ~file_path.isstr THEN Reply("error_path_not_string", fs.content, FALSE, <<>>)
    ELSE IF ~content.isstr THEN Reply("error_content_not_string", fs.content, FALSE, <<>>)
    ELSE IF io = "denied" THEN Reply("error_no_permission", fs.content, FALSE, <<>>)
    ELSE IF io = "open_fails" THEN Reply("error_create", fs.content, FALSE, <<>>)
    ELSE IF io = "write_fails" THEN Reply("error_create", File(<<>>), FALSE, <<>>)
    ELSE IF IsLuaFile(file_path.s) /\ Strip(content.s) # <<>>
    THEN Reply("created", File(content.s), TRUE, content.s)
    ELSE IF IsLuaFile(file_path.s)
    THEN Reply("created_empty_lua_skipped", File(content.s), FALSE, <<>>)
    ELSE Reply("created", File(content.s), FALSE, <<>>)

\* the paths a file may have
ToolPaths ==
    { <<"a", ".", "l", "u", "a">>, <<"a", ".", "L", "U", "A">>,
      <<"a", ".", "t", "x", "t">>, <<".", "l", "u", "a">>,
      <<"d", ".", "l", "u", "a", "/", "a">> }

\* the contents create_file is given
ToolContents ==
    { NotAStr, Str(<<>>), Str(<<" ", "\n">>), Str(<<"x">>), Str(<<"x", "\n", "y">>) }

\* the values found under "line", and the items and lists made of them
LineValues ==
    {PyInt(n) : n \in 0..MaxLineNo}
    \cup {PyFloat(MaxLineNo), PyStr(<<"2">>), PyStr(<<"x">>), PyNone}

ToolItems ==
    {Item({"line", "code"}, l, Str(<<"y">>)) : l \in LineValues}
    \cup { Item({"line", "code"}, PyInt(MaxLineNo), Str(<<>>)),
           Item({"line", "code"}, PyInt(1), NotAStr),
           Item({"code"}, PyNone, Str(<<"y">>)),
           Item({"line"}, PyInt(1), NotAStr),
           NotADict }

RECURSIVE ListsUpTo(_)
\* the lists of at most n items
ListsUpTo(n) ==
    IF n = 0 THEN {<<>>}
    ELSE ListsUpTo(n - 1)
         \cup {Append(l, i) : l \in {m \in ListsUpTo(n - 1) : Len(m) = n - 1},
                              i \in ToolItems}

ToolReplacements ==
    {[islist |-> TRUE, items |-> l] : l \in ListsUpTo(MaxReplacements)}
    \cup {[islist |-> FALSE, items |-> <<>>]}

ToolIo == {"ok", "denied", "read_fails", "open_fails", "write_fails"}

\* the trees the parser returns for a file's text, and the outcomes of the check
ToolCodes == ThreadCodes
ToolOutcomes == {NoFault, [NoFault EXCEPT !.construct_ok = FALSE]}

\* the file tools start with one file path, whose file may exist
InitTools ==
    /\ TREE_SITTER_AVAILABLE \in BOOLEAN
    /\ LUA_LANGUAGE_AVAILABLE = TRUE
    /\ XML_LANGUAGE_AVAILABLE = TRUE
    /\ lua_parser = None
    /\ xml_parser = None
    /\ nextHandle = 1
    /\ pc = "idle"
    /\ call = NoCall
    /\ result = NoResult
    /\ effect = NoEffect
    /\ constructed = [l \in {"lua", "xml"} |-> {}]
    /\ threads = [t \in 1..NumThreads |-> IdleThread]
    /\ first = NoFirst
    /\ fs \in [path : ToolPaths, content : {Absent, File(<<>>), File(<<"x", "\n", "z">>)}]
    /\ tool = NoTool

\* the state change of a tool call that returned `r`; when the tool calls
\* SyntaxChecker.check_syntax(text, "lua"), the parser returns the tree of `code`
ToolFinish(op, file_path, arg, io, r, code, oc) ==
    LET d == check_syntax(code, Str(LUA), oc)
    IN  /\ pc' = "tool_returned"
        /\ fs' = [fs EXCEPT !.content = r.content]
        /\ tool' = [op |-> op, file_path |-> file_path, arg |-> arg, io |-> io,
                    message |-> r.message, before |-> fs.content,
                    checked |-> r.check, checked_content |-> r.checked_content,
                    syntax |-> IF r.check THEN d.result ELSE NoResult]
        /\ lua_parser' = IF r.check /\ d.which = "lua" THEN d.acq.slot ELSE lua_parser
        /\ nextHandle' = IF r.check /\ d.acq.built THEN nextHandle + 1 ELSE nextHandle
        /\ constructed' = IF r.check /\ d.acq.built
                          THEN [constructed EXCEPT !["lua"] = @ \cup {d.acq.ret}]
                          ELSE constructed
        /\ UNCHANGED <<TREE_SITTER_AVAILABLE, LUA_LANGUAGE_AVAILABLE,
                       XML_LANGUAGE_AVAILABLE, xml_parser, call, result, effect,
                       threads, first>>

\* create_file(file_path, content)
CreateFile ==
    /\ pc = "idle"
    /\ \E file_path \in {Str(fs.path), Str(<<>>), NotAStr}, content \in ToolContents,
          io \in ToolIo \ {"read_fails"} :
          LET r == create_file(file_path, content, io)
          IN  IF r.check
              THEN \E code \in ToolCodes, oc \in ToolOutcomes :
                      ToolFinish("create_file", file_path, content, io, r, code, oc)
              ELSE ToolFinish("create_file", file_path, content, io, r,
                              CHOOSE c \in ToolCodes : TRUE, NoFault)

\* replace_code_by_line(file_path, replacements)
ReplaceCodeByLine ==
    /\ pc = "idle"
    /\ \E file_path \in {fs.path, <<>>}, replacements \in ToolReplacements, io \in ToolIo :
          LET r == replace_code_by_line(file_path, replacements, io)
          IN  IF r.check
              THEN \E code \in ToolCodes, oc \in ToolOutcomes :
                      ToolFinish("replace_code_by_line", Str(file_path), replacements,
                                 io, r, code, oc)
              ELSE ToolFinish("replace_code_by_line", Str(file_path), replacements,
                              io, r, CHOOSE c \in ToolCodes : TRUE, NoFault)

\* the caller has read the tool's reply
ToolReturn ==
    /\ pc = "tool_returned"
    /\ pc' = "idle"
    /\ tool' = NoTool
    /\ UNCHANGED <<TREE_SITTER_AVAILABLE, LUA_LANGUAGE_AVAILABLE, XML_LANGUAGE_AVAILABLE,
                   lua_parser, xml_parser, nextHandle, call, result, effect,
                   constructed, threads, first, fs>>

NextTools == CreateFile \/ ReplaceCodeByLine \/ ToolReturn

SpecTools == InitTools /\ [][NextTools]_vars

(***************************************************************************)
(* Properties.                                                             *)
(***************************************************************************)
Returned(op) == pc = "returned" /\ call.op = op

\* the identifiers that name Lua and XML in some case, and some that name neither
LuaIds == {Str(<<"l", "u", "a">>), Str(<<"L", "U", "A">>), Str(<<"L", "u", "a">>)}
XmlIds == {Str(<<"x", "m", "l">>), Str(<<"X", "M", "L">>)}
OtherIds == {Str(<<"c", "o", "b", "o", "l">>), Str(<<>>)}

\* the result holds exactly one diagnostic, of the given type, and reads as an error
OneDiagnostic(type) ==
    /\ Len(result.errors) = 1
    /\ result.errors[1].type = type
    /\ result.has_errors
    /\ ~result.is_valid

\* C1: in every result of check_syntax, available implies has_errors == (errors is
\* not empty), and unavailable implies exactly one diagnostic and has_errors.
C1_HasErrorsIffDiagnostics ==
    Returned("check_syntax") =>
        /\ result.available => (result.has_errors <=> Len(result.errors) > 0)
        /\ ~result.available => (Len(result.errors) = 1 /\ result.has_errors)

\* a check_syntax call whose walk reported several diagnostics
C1_Witness ==
    /\ Returned("check_syntax")
    /\ result.available
    /\ result.has_errors
    /\ Len(result.errors) >= 2

\* C2 as stated: whenever a step of check_syntax raises (dispatch, parser
\* construction, encoding, parsing, walk), the result holds exactly one diagnostic,
\* of type internal_error, with has_errors and not is_valid.
C2_AnyRaiseIsInternalError ==
    (Returned("check_syntax") /\ effect.raised # "none") => OneDiagnostic("internal_error")

\* C2 amended: whenever a step of check_syntax raises, the call returns a result
\* with exactly one diagnostic, has_errors and not is_valid; the diagnostic is a
\* parser_error when the step is the parser construction and an internal_error
\* for every other step; nothing the walk had accumulated is returned.
C2_RaiseYieldsOneDiagnostic ==
    (Returned("check_syntax") /\ effect.raised # "none") =>
        OneDiagnostic(IF effect.raised = "construct" THEN "parser_error"
                      ELSE "internal_error")

\* a walk that raised below a root which had already reported a diagnostic
C2_Witness ==
    /\ Returned("check_syntax")
    /\ effect.raised = "walk"
    /\ call.code.tree.type = "ERROR"
    /\ call.oc.frames = 1
    /\ OneDiagnostic("internal_error")

\* C3: with the runtime unavailable, check_syntax returns for every language
\* available=false, has_errors, one dependency_error and the language as passed,
\* and neither acquires nor constructs a parser nor parses.
C3_RuntimeUnavailable ==
    (Returned("check_syntax") /\ ~TREE_SITTER_AVAILABLE) =>
        /\ ~result.available
        /\ OneDiagnostic("dependency_error")
        /\ result.language = call.language
        /\ ~effect.called /\ ~effect.tried /\ ~effect.built /\ ~effect.parsed
        /\ lua_parser = None /\ xml_parser = None /\ nextHandle = 1

\* the runtime is missing, the Lua grammar is not, and Lua is asked for in capitals
C3_Witness ==
    /\ Returned("check_syntax")
    /\ ~TREE_SITTER_AVAILABLE
    /\ LUA_LANGUAGE_AVAILABLE
    /\ call.language = Str(<<"L", "U", "A">>)
    /\ OneDiagnostic("dependency_error")

\* C4 as stated: a language that is neither lua nor xml yields one
\* unsupported_language diagnostic with available=true, whatever the availability
\* of the runtime and the grammars.
C4_UnsupportedAlways ==
    (Returned("check_syntax") /\ call.language \in OtherIds) =>
        (OneDiagnostic("unsupported_language") /\ result.available)

\* C4 amended: when the runtime is available, a language string that is neither
\* lua nor xml in any case yields one unsupported_language diagnostic with
\* available=true and has_errors, whatever the availability of the grammars.
C4_UnsupportedWhenRuntimeAvailable ==
    (Returned("check_syntax") /\ TREE_SITTER_AVAILABLE /\ call.language \in OtherIds) =>
        (OneDiagnostic("unsupported_language") /\ result.available)

\* an unsupported language with the runtime loaded and no grammar loaded
C4_Witness ==
    /\ Returned("check_syntax")
    /\ TREE_SITTER_AVAILABLE /\ ~LUA_LANGUAGE_AVAILABLE /\ ~XML_LANGUAGE_AVAILABLE
    /\ call.language = Str(<<"c", "o", "b", "o", "l">>)
    /\ OneDiagnostic("unsupported_language")

\* whether the grammar of the language the call names is loaded
GrammarOf(language) ==
    IF language \in LuaIds THEN LUA_LANGUAGE_AVAILABLE ELSE XML_LANGUAGE_AVAILABLE

\* C5: with the runtime available and a supported language whose grammar is not,
\* check_syntax returns available=false, has_errors and one dependency_error, and
\* neither acquires nor constructs a parser nor parses; for lua and for xml, and
\* whatever the other grammar's availability.
C5_GrammarUnavailable ==
    (/\ Returned("check_syntax")
     /\ TREE_SITTER_AVAILABLE
     /\ call.language \in LuaIds \cup XmlIds
     /\ ~GrammarOf(call.language)) =>
        /\ ~result.available
        /\ OneDiagnostic("dependency_error")
        /\ ~effect.called /\ ~effect.tried /\ ~effect.built /\ ~effect.parsed
        /\ lua_parser = effect.lua_before /\ xml_parser = effect.xml_before

\* Lua asked for without its grammar, while the XML grammar is loaded
C5_Witness ==
    /\ Returned("check_syntax")
    /\ TREE_SITTER_AVAILABLE /\ ~LUA_LANGUAGE_AVAILABLE /\ XML_LANGUAGE_AVAILABLE
    /\ call.language \in LuaIds
    /\ OneDiagnostic("dependency_error")

\* C6: the language field of every result of check_syntax is the language
\* argument exactly as passed.
C6_LanguageEchoed ==
    Returned("check_syntax") => result.language = call.language

\* C7: in every result of check_syntax, check_lua_syntax and check_xml_syntax,
\* is_valid is the negation of has_errors, so a result with a diagnostic is not valid.
C7_IsValidIsNotHasErrors ==
    pc = "returned" =>
        /\ result.is_valid <=> ~result.has_errors
        /\ Len(result.errors) > 0 => ~result.is_valid

\* a direct check_xml_syntax call whose walk reported a diagnostic
C7_Witness ==
    /\ Returned("check_xml_syntax")
    /\ result.available
    /\ Len(result.errors) > 0
    /\ ~result.is_valid

\* C8: in a sequential run, a slot that holds a parser keeps it for ever, an
\* acquisition that finds a parser in the slot returns it without constructing,
\* and at most one parser is ever constructed per language.
C8_ParserCachedOnce ==
    /\ [][/\ lua_parser # None => lua_parser' = lua_parser
          /\ xml_parser # None => xml_parser' = xml_parser]_vars
    /\ [](pc = "returned" /\ effect.which = "lua" /\ effect.lua_before # None =>
            effect.called /\ effect.handle = effect.lua_before /\ ~effect.tried)
    /\ [](pc = "returned" /\ effect.which = "xml" /\ effect.xml_before # None =>
            effect.called /\ effect.handle = effect.xml_before /\ ~effect.tried)
    /\ [](\A l \in {"lua", "xml"} : Cardinality(constructed[l]) <= 1)

\* a later Lua check, whose construction would have failed, served from the cache
C8_Witness ==
    /\ pc = "returned"
    /\ effect.which = "lua"
    /\ effect.lua_before # None
    /\ effect.handle = effect.lua_before
    /\ ~call.oc.construct_ok
    /\ effect.parsed

\* C9: under any interleaving of concurrent calls, each language's parser is
\* constructed at most once and no caller holds a handle other than the cached one.
C9_GuardedInitialization ==
    /\ \A l \in {"lua", "xml"} : Cardinality(constructed[l]) <= 1
    /\ \A t \in Thread :
          (threads[t].pc \in {"parse", "done"} /\ threads[t].used # None) =>
              threads[t].used = Slot(threads[t].which)

\* the positions of the synthetic diagnostic and of the others in the result
Synthetic == {i \in 1..Len(result.errors) : result.errors[i].type = "general_syntax_error"}
Located == {i \in 1..Len(result.errors) : result.errors[i].type # "general_syntax_error"}

\* C10: after a parse and a completed walk, a set has_error flag of the root
\* implies has_errors; the general_syntax_error at (1, 1) is in the result exactly
\* when the walk reported nothing and the flag is set, once and alone.
C10_RootFlagNeverIgnored ==
    (pc = "returned" /\ effect.parsed /\ effect.raised = "none") =>
        /\ call.code.has_error => result.has_errors
        /\ Synthetic # {} <=> (Located = {} /\ call.code.has_error)
        /\ Synthetic # {} => result.errors = <<Diag(1, 1, "general_syntax_error", "unknown")>>

\* a tree without any reporting node whose root carries the flag
C10_Witness ==
    /\ pc = "returned" /\ effect.parsed /\ effect.raised = "none"
    /\ call.code.has_error
    /\ result.errors = <<Diag(1, 1, "general_syntax_error", "unknown")>>
    /\ result.has_errors

\* whether a diagnostic carries a 1-based position, or the (0, 0) sentinel
Positioned(d) == d.line >= 1 /\ d.column >= 1
Sentinel(d) == d.line = 0 /\ d.column = 0

\* C11 as stated: every diagnostic of every result has line >= 1 and column >= 1,
\* except the sentinel (0, 0), which only a dependency_error, an
\* unsupported_language or an internal_error carries.
C11_SentinelOnlyOnThreeKinds ==
    pc = "returned" =>
        \A i \in 1..Len(result.errors) :
            \/ Positioned(result.errors[i])
            \/ /\ Sentinel(result.errors[i])
               /\ result.errors[i].type \in {"dependency_error", "unsupported_language",
                                             "internal_error"}

\* C11 amended: every diagnostic of every result has line >= 1 and column >= 1,
\* except the sentinel (0, 0), which only a dependency_error, an
\* unsupported_language, an internal_error or a parser_error carries; those four
\* kinds always carry it, and every diagnostic of a walk is positioned.
C11_SentinelOnlyOnCallLevelKinds ==
    pc = "returned" =>
        \A i \in 1..Len(result.errors) :
            IF result.errors[i].type \in {"dependency_error", "unsupported_language",
                                          "internal_error", "parser_error"}
            THEN Sentinel(result.errors[i])
            ELSE Positioned(result.errors[i])

\* a walk that reported a node starting in row 0, next to nodes further down
C11_Witness ==
    /\ pc = "returned" /\ effect.parsed /\ effect.raised = "none"
    /\ \E i \in 1..Len(result.errors) :
          result.errors[i].line = 1 /\ result.errors[i].column > 1

\* a second check_syntax call with the arguments of the first has returned
Twice == pc = "returned" /\ first # NoFirst

\* C12 as stated: two check_syntax calls in a row with identical (code, language)
\* return identical results, also when the first call is the one that constructs,
\* or fails to construct, the cached parser.
C12_SameArgumentsSameResult ==
    Twice => result = first.result

\* C12 amended: two check_syntax calls in a row with identical (code, language)
\* return identical results whenever the steps that can fail behave alike in both
\* calls, also when the first call is the one that constructs, or fails to
\* construct, the cached parser.
C12_SameArgumentsAndOutcomesSameResult ==
    (Twice /\ call.oc = first.oc) => result = first.result

\* the first call built the parser and walked a tree with diagnostics, and the
\* second, served from the cache, returned the same result
C12_Witness ==
    /\ Twice /\ call.oc = first.oc
    /\ first.effect.built /\ ~effect.tried /\ effect.parsed
    /\ Len(result.errors) >= 2
    /\ result = first.result

RECURSIVE PreOrder(_)
RECURSIVE PreOrderOf(_, _)

\* the nodes of a tree, parents before children and children left to right
PreOrder(node) == <<node>> \o PreOrderOf(node.children, 1)

PreOrderOf(children, i) ==
    IF i > Len(children) THEN <<>>
    ELSE PreOrder(children[i]) \o PreOrderOf(children, i + 1)

\* the children of a node that have the given type
ChildrenOfType(node, type) ==
    {i \in 1..Len(node.children) : node.children[i].type = type}

\* an element that is closed: it has an end tag, or each start tag it has ends in "/>"
ClosedElement(n) ==
    \/ ChildrenOfType(n, "end_tag") # {}
    \/ \A i \in ChildrenOfType(n, "start_tag") :
          LET t == n.children[i].text
          IN  Len(t) >= 2 /\ t[Len(t) - 1] = "/" /\ t[Len(t)] = ">"

\* whether two dashes stand side by side in a text
TwoDashes(t) == \E i \in 1..(Len(t) - 1) : t[i] = "-" /\ t[i + 1] = "-"

\* a comment "<!--" body "-->" whose body holds no "--"
CleanComment(t) ==
    /\ Len(t) >= 7
    /\ SubSeq(t, 1, 4) = <<"<", "!", "-", "-">>
    /\ SubSeq(t, Len(t) - 2, Len(t)) = <<"-", "-", ">">>
    /\ ~TwoDashes(SubSeq(t, 5, Len(t) - 3))

\* a text of two characters or more that opens and closes with the same quote
Quoted(v) == Len(v) >= 2 /\ v[1] = v[Len(v)] /\ v[1] \in {"\"", "'"}

\* an attribute without '=', or whose value after the first '=' is quoted
QuotedAttribute(t) ==
    ("=" \in {t[i] : i \in 1..Len(t)}) => Quoted(Strip(SplitFirst(t, "=")[2]))

\* a tree of well-formed code: no ERROR node, no missing node, and only closed
\* elements, clean comments, quoted attributes and complete binary expressions
WellFormed(tree) ==
    \A k \in 1..Len(PreOrder(tree)) :
        LET n == PreOrder(tree)[k]
        IN  /\ n.type # "ERROR"
            /\ ~n.is_missing
            /\ n.type = "binary_expression" => Len(n.children) >= 3
            /\ n.type = "element" => ClosedElement(n)
            /\ n.type = "comment" => CleanComment(n.text)
            /\ n.type = "attribute" => QuotedAttribute(n.text)

\* a call that parsed and whose walk ran to its end
Walked(which) ==
    pc = "returned" /\ effect.which = which /\ effect.parsed /\ effect.raised = "none"

\* C13: a check that parses well-formed code, whose root's has_error flag is not
\* set, returns has_errors=false, is_valid=true and no diagnostic, for Lua and
\* for XML.
C13_WellFormedIsValid ==
    ((Walked("lua") \/ Walked("xml"))
     /\ WellFormed(call.code.tree) /\ ~call.code.has_error) =>
        /\ result.errors = <<>>
        /\ ~result.has_errors
        /\ result.is_valid
        /\ result.available

\* the XML check of an element with a start tag, a comment child, a self-closing
\* child and the matching end tag
C13_Witness ==
    /\ Walked("xml")
    /\ ~call.code.has_error
    /\ Len(call.code.tree.children) = 1
    /\ LET e == call.code.tree.children[1]
       IN  /\ e.type = "element"
           /\ [i \in 1..Len(e.children) |-> e.children[i].type]
                = <<"start_tag", "comment", "element", "end_tag">>
           /\ e.children[3].children[1].text = StartSelfClosing
    /\ result.errors = <<>>
    /\ result.is_valid

\* a query has answered
Answered(op) == pc = "answered" /\ call.op = op

\* the languages a list names
Listed(list) == {list[i] : i \in 1..Len(list)}

\* whether the result of a check is a dependency_error
IsDependencyError == \E i \in 1..Len(result.errors) : result.errors[i].type = "dependency_error"

\* C14: get_supported_languages returns exactly the languages whose runtime and
\* grammar are both loaded, lua before xml; get_dependency_status reports the three
\* flags, so a language is listed exactly when its two entries are true; and
\* check_syntax returns a dependency_error for lua or xml exactly when the
\* language is not listed.
C14_SupportedLanguagesAgree ==
    /\ Answered("get_supported_languages") =>
          result.value =
              IF TREE_SITTER_AVAILABLE
              THEN IF LUA_LANGUAGE_AVAILABLE
                   THEN (IF XML_LANGUAGE_AVAILABLE THEN <<LUA, XML>> ELSE <<LUA>>)
                   ELSE (IF XML_LANGUAGE_AVAILABLE THEN <<XML>> ELSE <<>>)
              ELSE <<>>
    /\ Answered("get_dependency_status") =>
          /\ LUA \in Listed(get_supported_languages)
                <=> (result.value.tree_sitter /\ result.value.tree_sitter_lua)
          /\ XML \in Listed(get_supported_languages)
                <=> (result.value.tree_sitter /\ result.value.tree_sitter_xml)
    /\ (Returned("check_syntax") /\ call.language \in LuaIds) =>
          (LUA \in Listed(get_supported_languages) <=> ~IsDependencyError)
    /\ (Returned("check_syntax") /\ call.language \in XmlIds) =>
          (XML \in Listed(get_supported_languages) <=> ~IsDependencyError)

\* both languages listed, lua first
C14_Witness ==
    /\ Answered("get_supported_languages")
    /\ result.value = <<LUA, XML>>

\* C15: when the runtime and the grammar are available and the construction of
\* the parser raises, the acquisition returns None and leaves the slot empty, and
\* the check returns exactly one diagnostic, a parser_error (or internal_error),
\* with has_errors, without parsing.
C15_ConstructionFailureIsParserError ==
    (pc = "returned" /\ effect.tried /\ ~effect.built) =>
        /\ TREE_SITTER_AVAILABLE
        /\ effect.handle = None
        /\ (effect.which = "lua" => LUA_LANGUAGE_AVAILABLE /\ lua_parser = None)
        /\ (effect.which = "xml" => XML_LANGUAGE_AVAILABLE /\ xml_parser = None)
        /\ Len(result.errors) = 1
        /\ result.errors[1].type \in {"parser_error", "internal_error"}
        /\ result.has_errors
        /\ ~effect.parsed

\* an XML check through check_syntax whose parser construction raised
C15_Witness ==
    /\ Returned("check_syntax")
    /\ effect.which = "xml"
    /\ effect.tried /\ ~effect.built
    /\ ~call.oc.construct_ok
    /\ OneDiagnostic("parser_error")
    /\ ~effect.parsed

\* the diagnostics of one type, in the order of the result
OfType(type) == SelectSeq(result.errors, LAMBDA d : d.type = type)

\* the start tag an element is judged by: the last of its start_tag children
StartTagOf(n) == n.children[CHOOSE i \in ChildrenOfType(n, "start_tag") :
                                \A j \in ChildrenOfType(n, "start_tag") : j <= i]

\* an element with a start tag that does not end in "/>", and no end tag
Unclosed(n) ==
    /\ n.type = "element"
    /\ ChildrenOfType(n, "start_tag") # {}
    /\ ChildrenOfType(n, "end_tag") = {}
    /\ LET t == StartTagOf(n).text
       IN  ~(Len(t) >= 2 /\ t[Len(t) - 1] = "/" /\ t[Len(t)] = ">")

\* C16: after an XML walk that ran to its end, the unclosed_tag diagnostics are,
\* in document order, one for each element node at any depth that has a direct
\* start_tag child, no direct end_tag child and a start tag not ending in "/>",
\* at the 1-based position of the start tag; no other element gets one.
C16_UnclosedTagRule ==
    Walked("xml") =>
        LET open == SelectSeq(PreOrder(call.code.tree), Unclosed)
        IN  OfType("unclosed_tag") =
                [k \in 1..Len(open) |->
                    Diag(StartTagOf(open[k]).row + 1, StartTagOf(open[k]).col + 1,
                         "unclosed_tag", "element")]

\* an unclosed element nested in a closed one: one diagnostic, at the inner start tag
C16_Witness ==
    /\ Walked("xml")
    /\ Len(SelectSeq(PreOrder(call.code.tree), LAMBDA n : n.type = "element")) = 2
    /\ ~Unclosed(call.code.tree.children[1])
    /\ OfType("unclosed_tag") = <<Diag(1, 4, "unclosed_tag", "element")>>

\* a comment text that does not both start with "<!--" and end with "-->"
Malformed(t) ==
    ~(/\ Len(t) >= 4 /\ SubSeq(t, 1, 4) = <<"<", "!", "-", "-">>
      /\ Len(t) >= 3 /\ SubSeq(t, Len(t) - 2, Len(t)) = <<"-", "-", ">">>)

\* a comment text that holds "--" once its first 4 and last 3 characters are removed
DashesInside(t) == TwoDashes(SubSeq(t, 5, Len(t) - 3))

\* what the two comment checks are to report on one comment node
CommentDiagnostics(n) ==
    (IF Malformed(n.text)
     THEN <<Diag(n.row + 1, n.col + 1, "malformed_comment", "comment")>> ELSE <<>>)
    \o (IF DashesInside(n.text)
        THEN <<Diag(n.row + 1, n.col + 1, "invalid_comment_content", "comment")>>
        ELSE <<>>)

RECURSIVE Concat(_)
\* the concatenation of a sequence of sequences
Concat(ss) == IF ss = <<>> THEN <<>> ELSE Head(ss) \o Concat(Tail(ss))

\* C17: after an XML walk that ran to its end, the malformed_comment and
\* invalid_comment_content diagnostics are, comment node by comment node in
\* document order: a malformed_comment iff the text does not both start with
\* "<!--" and end with "-->", then, independently, an invalid_comment_content iff
\* the text without its first 4 and last 3 characters contains "--".
C17_CommentRules ==
    Walked("xml") =>
        LET comments == SelectSeq(PreOrder(call.code.tree), LAMBDA n : n.type = "comment")
        IN  SelectSeq(result.errors,
                      LAMBDA d : d.type \in {"malformed_comment", "invalid_comment_content"})
              = Concat([k \in 1..Len(comments) |-> CommentDiagnostics(comments[k])])

\* one comment for which both checks fire, the malformed_comment first
C17_Witness ==
    /\ Walked("xml")
    /\ \E i \in 1..(Len(result.errors) - 1) :
          /\ result.errors[i].type = "malformed_comment"
          /\ result.errors[i + 1].type = "invalid_comment_content"
          /\ result.errors[i].line = result.errors[i + 1].line
          /\ result.errors[i].column = result.errors[i + 1].column

\* what the attribute rule is to report on one attribute node
AttributeDiagnostics(n) ==
    IF ("=" \in {n.text[i] : i \in 1..Len(n.text)})
       /\ ~Quoted(Strip(SplitFirst(n.text, "=")[2]))
    THEN <<Diag(n.row + 1, n.col + 1, "unquoted_attribute", "attribute")>>
    ELSE <<>>

\* C18: after an XML walk that ran to its end, the unquoted_attribute diagnostics
\* are, in document order, one for each attribute node whose text contains '=' and
\* whose part after the first '=', trimmed, is not wrapped in an opening and a
\* closing quote of the same kind; an attribute without '=' gets none.
C18_UnquotedAttributeRule ==
    Walked("xml") =>
        LET attrs == SelectSeq(PreOrder(call.code.tree), LAMBDA n : n.type = "attribute")
        IN  OfType("unquoted_attribute")
              = Concat([k \in 1..Len(attrs) |-> AttributeDiagnostics(attrs[k])])

\* a file tool has returned
ToolReturned(op) == pc = "tool_returned" /\ tool.op = op

\* the tool's reply is an error message
ErrorReply == tool.message \notin {"replaced", "created", "created_empty_lua_skipped"}

\* a replacements argument that is not a list, or is empty, or holds an item that
\* is not a dict, lacks 'line' or 'code', has a line that is not an integer or is
\* below 1 or was used by an earlier item, or has a code that is not a string
Rejectable(replacements) ==
    \/ ~replacements.islist
    \/ replacements.items = <<>>
    \/ \E i \in 1..Len(replacements.items) :
          LET item == replacements.items[i]
          IN  \/ ~item.isdict
              \/ "line" \notin item.keys
              \/ "code" \notin item.keys
              \/ item.line.kind # "int"
              \/ item.line.n < 1
              \/ \E j \in 1..(i - 1) :
                    /\ replacements.items[j].isdict
                    /\ "line" \in replacements.items[j].keys
                    /\ replacements.items[j].line = item.line
              \/ ~item.code.isstr

\* C19: replace_code_by_line called with a replacements argument that is not a
\* list, is empty, or holds an item that is not a dict, lacks 'line' or 'code', has
\* a non-integer line, a line below 1, a line number an earlier item used, or a
\* non-string code, returns an error message and leaves the file's content as it was.
C19_InvalidReplacementsRejected ==
    (ToolReturned("replace_code_by_line") /\ Rejectable(tool.arg)) =>
        (ErrorReply /\ fs.content = tool.before)

\* C20: create_file and replace_code_by_line call check_syntax only for a file
\* whose extension is .lua in some case and with a content that is not empty and
\* not made of whitespace only.
C20_CheckerOnlyForNonEmptyLua ==
    (pc = "tool_returned" /\ tool.checked) =>
        /\ tool.file_path \in {Str(<<"a", ".", "l", "u", "a">>), Str(<<"a", ".", "L", "U", "A">>)}
        /\ \E i \in 1..Len(tool.checked_content) :
              tool.checked_content[i] \notin {" ", "\t", "\n"}

\* what the checks of a walk report on one node taken alone, in the order the
\* walk applies them
OwnDiagnostics(n, which) ==
    IF which = "lua"
    THEN CheckBinaryExpression(n, CheckMissingNode(n, CheckErrorNode(n, WalkStart))).errors
    ELSE CheckXmlRules(n, CheckMissingNode(n, CheckErrorNode(n, WalkStart))).errors

\* the place of a diagnostic's kind in the fixed order of one node's diagnostics
Rank(type) ==
    CASE type = "syntax_error" -> 1
      [] type = "missing_node" -> 2
      [] type = "incomplete_expression" -> 3
      [] OTHER -> 4

\* the diagnostics of the walk: the result without the diagnostic added after it
WalkOutput == SelectSeq(result.errors, LAMBDA d : d.type # "general_syntax_error")

\* the positions, 1-based, of the nodes of a tree that satisfy a test, in pre-order
PositionsOf(tree, Test(_)) ==
    LET hit == SelectSeq(PreOrder(tree), Test)
    IN  [k \in 1..Len(hit) |-> <<hit[k].row + 1, hit[k].col + 1>>]

\* the positions of the diagnostics of one type, in the order of the result
PositionsOfType(type) ==
    [k \in 1..Len(OfType(type)) |-> <<OfType(type)[k].line, OfType(type)[k].column>>]

\* C21: the output of a walk that ran to its end is the concatenation, over the
\* nodes of the tree in pre-order (parents first, children left to right), of each
\* node's own diagnostics; a node's own diagnostics come in the order syntax_error,
\* missing_node, incomplete_expression, language rule; every node is visited
\* whatever its ancestors reported, so the syntax_error diagnostics are one per
\* ERROR node and the missing_node diagnostics one per missing node.
C21_PreOrderConcatenation ==
    \A which \in {"lua", "xml"} :
        Walked(which) =>
            LET nodes == PreOrder(call.code.tree)
                own == [k \in 1..Len(nodes) |-> OwnDiagnostics(nodes[k], which)]
            IN  /\ WalkOutput = Concat(own)
                /\ \A k \in 1..Len(own) : \A i \in 1..(Len(own[k]) - 1) :
                      Rank(own[k][i].type) <= Rank(own[k][i + 1].type)
                /\ PositionsOfType("syntax_error")
                     = PositionsOf(call.code.tree, LAMBDA n : n.type = "ERROR")
                /\ PositionsOfType("missing_node")
                     = PositionsOf(call.code.tree, LAMBDA n : n.is_missing)

\* an ERROR node, the missing node below it and its later sibling all reported,
\* in that order
C21_Witness ==
    /\ Walked("lua")
    /\ [i \in 1..Len(result.errors) |-> result.errors[i].type]
         = <<"syntax_error", "missing_node", "incomplete_expression">>
    /\ call.code.tree.children[1].type = "ERROR"
    /\ call.code.tree.children[1].children[1].is_missing
    /\ Len(call.code.tree.children) = 2

\* a binary_expression node with fewer than 3 children
Incomplete(n) == n.type = "binary_expression" /\ Len(n.children) < 3

\* the kinds a result holds
Kinds == {result.errors[i].type : i \in 1..Len(result.errors)}

ConstructionFailed(e) == e.which \in {"lua", "xml"} /\ e.tried /\ ~e.built

\* C23: a failed parser construction is not cached: when a call's construction
\* fails, the language's slot is still empty when it returns; a check that finds
\* the slot empty attempts the construction, so the next check for that language
\* finds the slot empty and attempts the construction again; and if
\* that attempt succeeds, the parser is stored, the check goes on to parse and its
\* result has available=true and no parser_error.
C23_FailedConstructionNotCached ==
    /\ (pc = "returned" /\ ConstructionFailed(effect)) => Slot(effect.which) = None
    /\ (/\ pc = "returned" /\ effect.which \in {"lua", "xml"} /\ effect.called
        /\ TREE_SITTER_AVAILABLE
        /\ (IF effect.which = "lua" THEN LUA_LANGUAGE_AVAILABLE /\ effect.lua_before = None
            ELSE XML_LANGUAGE_AVAILABLE /\ effect.xml_before = None)) => effect.tried
    /\ (Twice /\ ConstructionFailed(first.effect)) =>
          /\ effect.which = first.effect.which
          /\ (IF effect.which = "lua" THEN effect.lua_before ELSE effect.xml_before) = None
          /\ effect.tried
          /\ call.oc.construct_ok =>
                /\ effect.built
                /\ effect.handle # None
                /\ Slot(effect.which) = effect.handle
                /\ result.available
                /\ "parser_error" \notin Kinds
                /\ call.oc.encode_ok => effect.parsed
                /\ call.oc = NoFault =>
                      (result.has_errors <=> Len(result.errors) > 0)

\* an XML check whose construction failed, followed by the same check, whose
\* construction succeeded and which parsed and walked
C23_Witness ==
    /\ Twice
    /\ ConstructionFailed(first.effect)
    /\ first.result.errors[1].type = "parser_error"
    /\ effect.which = "xml"
    /\ effect.built /\ effect.parsed /\ effect.raised = "none"
    /\ result.available
    /\ xml_parser = effect.handle

====
